---- MODULE Spec2Model ----
(***************************************************************************)
(* The Subjects service of the "Subjects App" guide                        *)
(* (backend/src/subjects/subjects.service.ts as listed in the guide):      *)
(* create, findAll, findOne, update and getAuditLogs over the subject and  *)
(* audit_log tables, scoped by the user_center memberships.                *)
(*                                                                         *)
(* The guide lists create and findAll twice.  The model follows the fuller *)
(* listing of each (create with the access check, findAll with the         *)
(* empty-scope guard); the walkthrough copies of section 3 are abridged.   *)
(***************************************************************************)
EXTENDS Integers, Sequences, FiniteSets, TLC

VARIABLES
    subjects,    \* rows of table subject
    auditLogs,   \* rows of table audit_log
    users,       \* rows of table user (ids)
    userCenters, \* rows of table user_center: <<userId, centerId>>
    nextId,      \* number of subject uuids generated so far
    clock,       \* number of audit inserts attempted so far; the source of
                 \* audit_log.timestamp (@CreateDateColumn)
    res,         \* outcome of the last request
    requests     \* create requests in progress, when requests run concurrently

vars == <<subjects, auditLogs, users, userCenters, nextId, clock, res, requests>>

----------------------------------------------------------------------------
(* Bounds of the model *)

MaxIds == 2
MaxAudit == 2

----------------------------------------------------------------------------
(* Universe of values *)

Users == {"U1", "U2"}
Centers == {"C1", "C2"}
CenterName(c) == IF c = "C1" THEN "Center A" ELSE "Center B"
Memberships == {<<"U1", "C1">>}

\* subject numbers, in the storage collation's ascending order
NumberOrder == <<"SUB-001", "SUB-002">>
Numbers == {NumberOrder[i] : i \in 1..Len(NumberOrder)}
NumberRank(n) == CHOOSE i \in 1..Len(NumberOrder) : NumberOrder[i] = n
Names == {"John Doe", "Jane Doe"}

\* ISO date strings a request may carry (@IsDateString accepts a time part)
BirthDateStrings == {"1990-01-15", "1991-01-15", "1990-01-15T10:00:00Z"}

NULL == "NULL"            \* SQL NULL / JavaScript null
Undefined == "undefined"  \* a property absent from the DTO
NullObject == [null |-> TRUE] \* null where an object is expected

\* a generator that hands out the same identifier again
UuidReused(n) == "uuid-1"

Uuid(n) == "uuid-" \o ToString(n)
UuidShaped == {Uuid(n) : n \in 1..MaxIds}
IsUUID(s) == s \in UuidShaped

----------------------------------------------------------------------------
(* Dates.  A JavaScript Date is modelled as hours since the epoch; the     *)
(* DATE column keeps the day.                                              *)

\* new Date(isoString)
NewDate(s) ==
    CASE s = "1990-01-15" -> 7319 * 24
      [] s = "1991-01-15" -> 7684 * 24
      [] s = "1990-01-15T10:00:00Z" -> 7319 * 24 + 10

\* what a column of type 'date' keeps of a Date (or of an ISO string)
ToDateColumn(d) == d \div 24

\* the Date a column of type 'date' is read back as (midnight UTC)
FromDateColumn(day) == day * 24

\* date.toISOString().split('T')[0]
ToISODateString(d) ==
    CASE d \div 24 = 7319 -> "1990-01-15"
      [] d \div 24 = 7684 -> "1991-01-15"

----------------------------------------------------------------------------
(* Storage *)

SubjectIds == {s.id : s \in subjects}
SubjectById(id) == CHOOSE s \in subjects : s.id = id
SubjectByNumber(n) == CHOOSE s \in subjects : s.number = n

\* usersService.findUserCenters(userId)
findUserCenters(u) == {m[2] : m \in {x \in userCenters : x[1] = u}}

\* the subject table without the unique constraint on number
NoUniqueConstraint(s) == FALSE

\* @Column({ unique: true }) number: an insert or update of row s is
\* rejected when another row holds the same number
UniqueViolation(s) == \E t \in subjects : t.id # s.id /\ t.number = s.number

\* subjectsRepository.save(subject): the table after the write
save(s) == {t \in subjects : t.id # s.id} \cup {s}

\* ORDER BY number ASC
RECURSIVE OrderByNumberAsc(_)
OrderByNumberAsc(S) ==
    IF S = {} THEN <<>>
    ELSE LET m == CHOOSE x \in S : \A y \in S : NumberRank(x.number) <= NumberRank(y.number)
         IN <<m>> \o OrderByNumberAsc(S \ {m})

\* ORDER BY timestamp ASC
RECURSIVE OrderByTimestampAsc(_)
OrderByTimestampAsc(S) ==
    IF S = {} THEN <<>>
    ELSE LET m == CHOOSE x \in S : \A y \in S : x.timestamp <= y.timestamp
         IN <<m>> \o OrderByTimestampAsc(S \ {m})

\* ORDER BY timestamp DESC
RECURSIVE OrderByTimestampDesc(_)
OrderByTimestampDesc(S) ==
    IF S = {} THEN <<>>
    ELSE LET m == CHOOSE x \in S : \A y \in S : x.timestamp >= y.timestamp
         IN <<m>> \o OrderByTimestampDesc(S \ {m})

----------------------------------------------------------------------------
(* Diff payloads: a function from the keys present to their entries.  A    *)
(* scalar value v is Flat(v); a change is Pair(old, new).  The jsonb       *)
(* column keeps no key whose value is undefined.                           *)

EmptyDiff == [k \in {} |-> NULL]
Flat(v) == [flat |-> v]
Pair(o, n) == IF n = Undefined THEN [old |-> o] ELSE [old |-> o, new |-> n]
Entry(k, v) == [x \in {k} |-> v]

\* this.createAuditLog(userId, subjectId, action, diff): the new row
AuditRow(u, sid, action, diff) ==
    [id |-> clock + 1, subjectId |-> sid, userId |-> u, action |-> action,
     diff |-> diff, timestamp |-> clock + 1]

\* the diff of a CREATE entry: the full initial field set
CreateDiff(s) ==
    Entry("number", Flat(s.number)) @@ Entry("name", Flat(s.name))
    @@ Entry("birthDate", Flat(ToISODateString(FromDateColumn(s.birthDate))))
    @@ Entry("centerId", Flat(s.centerId))

----------------------------------------------------------------------------
(* Requests *)

Result(op, u, arg, status, value) ==
    [op |-> op, user |-> u, arg |-> arg, status |-> status, value |-> value]

CreateDtos ==
    [number : Numbers, name : {"John Doe"}, birthDate : {"1990-01-15"}, centerId : Centers]

\* UpdateSubjectDto extends PartialType(CreateSubjectDto): every property optional
PartialDtos ==
    [number : Numbers \cup {Undefined}, name : Names \cup {Undefined},
     birthDate : BirthDateStrings \cup {Undefined}, centerId : Centers \cup {Undefined}]
Present(dto) ==
    {k \in {"number", "name", "birthDate", "centerId"} : dto[k] # Undefined}
\* requests that carry one property, and requests that carry all four (as the
\* form of the frontend sends them)
UpdateDtos ==
    {dto \in PartialDtos : Cardinality(Present(dto)) = 1} \cup CreateDtos

\* the strings a caller may pass to getAuditLogs
AuditLogKeys == UuidShaped \cup Numbers

\* the create requests that may be in progress at the same time
Slots == {"r1", "r2"}

\* a request not yet received
IdleRequest ==
    [pc |-> "idle", dto |-> NullObject, user |-> NULL, existing |-> FALSE,
     subjectId |-> NULL, status |-> NULL]

Init ==
    /\ requests = [r \in Slots |-> IdleRequest]
    /\ subjects = {}
    /\ auditLogs = {}
    /\ users = Users
    /\ userCenters = Memberships
    /\ nextId = 0
    /\ clock = 0
    /\ res = Result("none", NULL, NULL, "ok", NULL)

\* create without the access check, as the walkthrough of section 3.1 lists it:
\* the scope is fetched and not consulted
createUnchecked(dto, u) ==
    LET subject == [id |-> Uuid(nextId + 1), number |-> dto.number, name |-> dto.name,
                    birthDate |-> ToDateColumn(NewDate(dto.birthDate)),
                    centerId |-> dto.centerId]
    IN
    /\ UNCHANGED <<users, userCenters, requests>>
    /\ IF UniqueViolation(subject)
       THEN /\ res' = Result("create", u, dto, "QueryFailedError", NULL)
            /\ UNCHANGED <<subjects, auditLogs, nextId, clock>>
       ELSE /\ nextId < MaxIds
            /\ clock < MaxAudit
            /\ subjects' = save(subject)
            /\ nextId' = nextId + 1
            /\ clock' = clock + 1
            /\ auditLogs' = auditLogs \cup
                    {AuditRow(u, subject.id, "CREATE", CreateDiff(subject))}
            /\ res' = Result("create", u, dto, "ok", subject.id)

\* create(createSubjectDto, userId); the audit insert succeeds or throws
create(dto, u) ==
    LET userCenterIds == findUserCenters(u)
        subject == [id |-> Uuid(nextId + 1), number |-> dto.number, name |-> dto.name,
                    birthDate |-> ToDateColumn(NewDate(dto.birthDate)),
                    centerId |-> dto.centerId]
    IN
    /\ UNCHANGED <<users, userCenters, requests>>
    /\ IF dto.centerId \notin userCenterIds
       THEN /\ res' = Result("create", u, dto, "Forbidden", NULL)
            /\ UNCHANGED <<subjects, auditLogs, nextId, clock>>
       ELSE IF UniqueViolation(subject)
       THEN \* the existingSubject looked up at step 2 is not acted upon;
            \* save() is rejected by the unique constraint on number
            /\ res' = Result("create", u, dto, "QueryFailedError", NULL)
            /\ UNCHANGED <<subjects, auditLogs, nextId, clock>>
       ELSE /\ nextId < MaxIds
            /\ clock < MaxAudit
            /\ subjects' = save(subject)
            /\ nextId' = nextId + 1
            /\ clock' = clock + 1
            /\ \/ /\ auditLogs' = auditLogs \cup
                          {AuditRow(u, subject.id, "CREATE", CreateDiff(subject))}
                  /\ res' = Result("create", u, dto, "ok", subject.id)
               \/ /\ UNCHANGED auditLogs
                  /\ res' = Result("create", u, dto, "AuditWriteError", NULL)

Create == \E dto \in CreateDtos, u \in users : create(dto, u)

\* a find() whose where option is dropped: every row, ordered by number
repositoryFindEveryRow(centerIds) == OrderByNumberAsc(subjects)

\* subjectsRepository.find({ where: [{centerId}, ...], order: { number: 'ASC' } }):
\* the where array is an OR of its members; an empty array adds no WHERE clause
repositoryFind(centerIds) ==
    OrderByNumberAsc(IF centerIds = {} THEN subjects
                     ELSE {s \in subjects : s.centerId \in centerIds})

\* findAll without the empty-scope guard, as the walkthrough of section 3.2
\* lists it: an empty scope reaches find() as an empty where array
findAllUnguarded(u) ==
    [status |-> "ok", value |-> repositoryFind(findUserCenters(u))]

\* findAll(userId)
findAll(u) ==
    LET userCenterIds == findUserCenters(u)
    IN IF Cardinality(userCenterIds) = 0
       THEN [status |-> "ok", value |-> <<>>]
       ELSE [status |-> "ok", value |-> repositoryFind(userCenterIds)]

FindAll ==
    \E u \in users :
        /\ LET r == findAll(u)
           IN res' = Result("findAll", u, NULL, r.status,
                            [i \in DOMAIN r.value |-> r.value[i].id])
        /\ UNCHANGED <<subjects, auditLogs, users, userCenters, nextId, clock, requests>>

\* findOne without the access check
findOneUnchecked(id, u) ==
    IF id \notin SubjectIds
    THEN [status |-> "NotFound", value |-> NULL]
    ELSE [status |-> "ok", value |-> SubjectById(id)]

\* findOne with the scope resolved and tested before the row is looked up
findOneScopeFirst(id, u) ==
    IF findUserCenters(u) = {}
    THEN [status |-> "Forbidden", value |-> NULL]
    ELSE IF id \notin SubjectIds
    THEN [status |-> "NotFound", value |-> NULL]
    ELSE IF SubjectById(id).centerId \notin findUserCenters(u)
    THEN [status |-> "Forbidden", value |-> NULL]
    ELSE [status |-> "ok", value |-> SubjectById(id)]

\* findOne(id, userId)
findOne(id, u) ==
    IF id \notin SubjectIds
    THEN [status |-> "NotFound", value |-> NULL]
    ELSE IF SubjectById(id).centerId \notin findUserCenters(u)
    THEN [status |-> "Forbidden", value |-> NULL]
    ELSE [status |-> "ok", value |-> SubjectById(id)]

FindOne ==
    \E id \in UuidShaped, u \in users :
        /\ LET r == findOne(id, u)
           IN res' = Result("findOne", u, id, r.status,
                            IF r.status = "ok" THEN r.value.id ELSE NULL)
        /\ UNCHANGED <<subjects, auditLogs, users, userCenters, nextId, clock, requests>>

\* centersService.findOne(centerId, userId): the center, or null when the
\* lookup finds none; missing is the set of centers this request's lookups
\* do not find
centersFindOne(c, u, missing) ==
    IF c \in Centers \ missing THEN [id |-> c, name |-> CenterName(c)] ELSE NullObject

\* a name substitution that passes the missing name on
NameOrNull(center) == IF center = NullObject THEN NULL ELSE center.name

\* oldCenter?.name || 'Unknown'
NameOrUnknown(center) == IF center = NullObject THEN "Unknown" ELSE center.name

\* an assignment that copies every property of the DTO class, present or not
assignEveryProperty(subject, dto) ==
    [id |-> subject.id, number |-> dto.number, name |-> dto.name,
     birthDate |-> IF dto.birthDate # Undefined
                   THEN ToDateColumn(NewDate(dto.birthDate)) ELSE subject.birthDate,
     centerId |-> dto.centerId]

\* Object.assign(subject, updateSubjectDto): only the properties the DTO
\* carries are written; the date column keeps the day of a birthDate string
assign(subject, dto) ==
    [id |-> subject.id,
     number |-> IF dto.number # Undefined THEN dto.number ELSE subject.number,
     name |-> IF dto.name # Undefined THEN dto.name ELSE subject.name,
     birthDate |-> IF dto.birthDate # Undefined
                   THEN ToDateColumn(NewDate(dto.birthDate)) ELSE subject.birthDate,
     centerId |-> IF dto.centerId # Undefined THEN dto.centerId ELSE subject.centerId]

\* step 3 of update: the diff of the DTO against oldData (oldBirthDate is
\* read as the stored birth date, the Date captured in oldData.birthDate)
calculateDiff(oldData, dto, u, missing) ==
    LET numberDiff ==
            IF dto.number # oldData.number
            THEN Entry("number", Pair(oldData.number, dto.number)) ELSE EmptyDiff
        nameDiff ==
            IF dto.name # oldData.name
            THEN Entry("name", Pair(oldData.name, dto.name)) ELSE EmptyDiff
        newBirthDateStr == dto.birthDate
        oldBirthDateStr == ToISODateString(oldData.birthDate)
        birthDateDiff ==
            IF dto.birthDate # Undefined /\ newBirthDateStr # oldBirthDateStr
            THEN Entry("birthDate", Pair(oldBirthDateStr, newBirthDateStr)) ELSE EmptyDiff
        centerDiff ==
            IF dto.centerId # Undefined /\ dto.centerId # oldData.centerId
            THEN Entry("center",
                       [old |-> [id |-> oldData.centerId,
                                 name |-> NameOrUnknown(centersFindOne(oldData.centerId, u, missing))],
                        new |-> [id |-> dto.centerId,
                                 name |-> NameOrUnknown(centersFindOne(dto.centerId, u, missing))]])
            ELSE EmptyDiff
    IN numberDiff @@ nameDiff @@ birthDateDiff @@ centerDiff

\* the outcomes of the center lookups of an update: none is made unless the
\* center changes; a lookup made for the user may find nothing only for a
\* center outside the user's scope (the old center is in it, findOne passed;
\* both exist, the foreign key of subject.center_id holds)
LookupOutcomes(oldData, dto, u) ==
    IF dto.centerId # Undefined /\ dto.centerId # oldData.centerId
    THEN SUBSET ({oldData.centerId, dto.centerId} \ findUserCenters(u))
    ELSE {{}}

\* what res records of an update request
UpdateArg(id, fields, missing) == [id |-> id, fields |-> fields, notFound |-> missing]

\* update(id, updateSubjectDto, userId); the audit insert succeeds or throws
update(id, dto, u) ==
    LET found == findOne(id, u)
        subject == found.value
        oldData == [number |-> subject.number, name |-> subject.name,
                    birthDate |-> FromDateColumn(subject.birthDate),
                    centerId |-> subject.centerId]
        assigned == assign(subject, dto)
    IN
    /\ UNCHANGED <<users, userCenters, nextId, requests>>
    /\ IF found.status # "ok"
       THEN /\ res' = Result("update", u, UpdateArg(id, {}, {}), found.status, NULL)
            /\ UNCHANGED <<subjects, auditLogs, clock>>
       ELSE IF UniqueViolation(assigned)
       THEN \* save() rejected by the unique constraint on number
            /\ res' = Result("update", u, UpdateArg(id, Present(dto), {}),
                             "QueryFailedError", NULL)
            /\ UNCHANGED <<subjects, auditLogs, clock>>
       ELSE \E missing \in LookupOutcomes(oldData, dto, u) :
            LET diff == calculateDiff(oldData, dto, u, missing)
                arg == UpdateArg(id, Present(dto), missing)
            IN
            /\ subjects' = save(assigned)
            /\ IF DOMAIN diff = {}
               THEN /\ UNCHANGED <<auditLogs, clock>>
                    /\ res' = Result("update", u, arg, "ok", id)
               ELSE /\ clock < MaxAudit
                    /\ clock' = clock + 1
                    /\ \/ /\ auditLogs' = auditLogs \cup
                                {AuditRow(u, id, "UPDATE",
                                          diff @@ Entry("subjectId", Flat(id)))}
                          /\ res' = Result("update", u, arg, "ok", id)
                       \/ /\ UNCHANGED auditLogs
                          /\ res' = Result("update", u, arg, "AuditWriteError", NULL)

\* a request the access check refuses ends the same way whatever its payload:
\* one payload stands for all of them
Update ==
    \E id \in UuidShaped, u \in users :
        IF findOne(id, u).status # "ok"
        THEN update(id, CHOOSE dto \in UpdateDtos : TRUE, u)
        ELSE \E dto \in UpdateDtos : update(id, dto, u)

\* diff->>'number' = :number OR diff->'number'->>'new' = :number
DiffCarriesNumber(diff, n) ==
    /\ "number" \in DOMAIN diff
    /\ \/ /\ "flat" \in DOMAIN diff.number
          /\ diff.number.flat = n
       \/ /\ "new" \in DOMAIN diff.number
          /\ diff.number.new = n

\* the condition on the subject_id column alone
RefersToDirectOnly(a, sid) == a.subjectId = sid

\* subject_id = :subjectId OR diff->>'subjectId' = :subjectId
RefersTo(a, sid) ==
    \/ a.subjectId = sid
    \/ /\ "subjectId" \in DOMAIN a.diff
       /\ a.diff.subjectId = Flat(sid)

\* a resolution that scans the audit log before it looks for a live subject
resolveAuditLogFirst(subjectIdOrNumber) ==
    IF IsUUID(subjectIdOrNumber) THEN subjectIdOrNumber
    ELSE LET withNumber == {a \in auditLogs : DiffCarriesNumber(a.diff, subjectIdOrNumber)}
         IN IF withNumber # {}
            THEN OrderByTimestampAsc(withNumber)[1].subjectId
            ELSE IF \E s \in subjects : s.number = subjectIdOrNumber
            THEN SubjectByNumber(subjectIdOrNumber).id
            ELSE NULL

\* the first part of getAuditLogs: the subject id the input resolves to, or NULL
resolveSubjectId(subjectIdOrNumber) ==
    IF IsUUID(subjectIdOrNumber) THEN subjectIdOrNumber
    ELSE IF \E s \in subjects : s.number = subjectIdOrNumber
    THEN SubjectByNumber(subjectIdOrNumber).id
    ELSE LET withNumber == {a \in auditLogs : DiffCarriesNumber(a.diff, subjectIdOrNumber)}
         IN IF withNumber # {} /\ OrderByTimestampAsc(withNumber)[1].subjectId # NULL
            THEN OrderByTimestampAsc(withNumber)[1].subjectId
            ELSE NULL

\* the query run without the test on subjectId: a null parameter drops the
\* condition and every row qualifies
queryAuditLogsUnguarded(subjectId) ==
    OrderByTimestampDesc(IF subjectId = NULL THEN auditLogs
                         ELSE {a \in auditLogs : RefersTo(a, subjectId)})

\* the second part of getAuditLogs: the rows of the resolved subject, newest first
queryAuditLogs(subjectId) ==
    IF subjectId # NULL
    THEN OrderByTimestampDesc({a \in auditLogs : RefersTo(a, subjectId)})
    ELSE <<>>

\* the center the resolved subject belongs or last belonged to, or NULL: the
\* live row's centerId, else the center its newest row records
historicalCenter(subjectId, logs) ==
    IF subjectId \in SubjectIds THEN SubjectById(subjectId).centerId
    ELSE LET withCenter == {i \in DOMAIN logs :
                               {"center", "centerId"} \cap DOMAIN logs[i].diff # {}}
             i == CHOOSE j \in withCenter : \A k \in withCenter : j <= k
         IN IF withCenter = {} THEN NULL
            ELSE IF "center" \in DOMAIN logs[i].diff THEN logs[i].diff.center.new.id
            ELSE logs[i].diff.centerId.flat

\* getAuditLogs(subjectIdOrNumber, userId)
getAuditLogs(subjectIdOrNumber, u) ==
    LET subjectId == resolveSubjectId(subjectIdOrNumber)
        logs == queryAuditLogs(subjectId)
        userCenterIds == findUserCenters(u)
        center == historicalCenter(subjectId, logs)
    IN IF subjectId # NULL /\ center # NULL /\ center \notin userCenterIds
       THEN [status |-> "Forbidden", value |-> <<>>]
       ELSE [status |-> "ok", value |-> logs]

GetAuditLogs ==
    \E key \in AuditLogKeys, u \in users :
        /\ LET r == getAuditLogs(key, u)
           IN res' = Result("getAuditLogs", u, key, r.status,
                            [i \in DOMAIN r.value |-> r.value[i].id])
        /\ UNCHANGED <<subjects, auditLogs, users, userCenters, nextId, clock, requests>>

\* the deletion of a subject row if the foreign key were ON DELETE CASCADE
deleteSubjectCascade(id) ==
    /\ id \in SubjectIds
    /\ subjects' = {s \in subjects : s.id # id}
    /\ auditLogs' = {a \in auditLogs : a.subjectId # id}
    /\ res' = Result("deleteSubject", NULL, id, "ok", NULL)
    /\ UNCHANGED <<users, userCenters, nextId, clock, requests>>

\* a subject row is deleted by a process outside the service; the foreign key
\* of audit_log.subject_id is ON DELETE SET NULL
deleteSubject(id) ==
    /\ id \in SubjectIds
    /\ subjects' = {s \in subjects : s.id # id}
    /\ auditLogs' = {IF a.subjectId = id THEN [a EXCEPT !.subjectId = NULL] ELSE a :
                       a \in auditLogs}
    /\ res' = Result("deleteSubject", NULL, id, "ok", NULL)
    /\ UNCHANGED <<users, userCenters, nextId, clock, requests>>

DeleteSubject == \E id \in UuidShaped : deleteSubject(id)

\* a user row is deleted by a process outside the service; audit_log.user_id
\* is ON DELETE SET NULL and user_center.user_id is ON DELETE CASCADE
deleteUser(u) ==
    /\ users' = users \ {u}
    /\ userCenters' = {m \in userCenters : m[1] # u}
    /\ auditLogs' = {IF a.userId = u THEN [a EXCEPT !.userId = NULL] ELSE a :
                       a \in auditLogs}
    /\ res' = Result("deleteUser", NULL, u, "ok", NULL)
    /\ UNCHANGED <<subjects, nextId, clock, requests>>

\* the users deleted are those with memberships: the deletion of any other
\* cascades to no row the service reads
DeleteUser == \E u \in {x \in users : findUserCenters(x) # {}} : deleteUser(u)

Next ==
    \/ Create
    \/ FindAll
    \/ FindOne
    \/ Update
    \/ GetAuditLogs
    \/ DeleteSubject
    \/ DeleteUser

Spec == Init /\ [][Next]_vars

----------------------------------------------------------------------------
(* Concurrent create requests.  Each await of create is a step of its own, *)
(* and the steps of the requests in progress interleave.                   *)

\* POST /subjects reaches create(createSubjectDto, userId)
Receive(r, dto, u) ==
    /\ requests[r].pc = "idle"
    /\ requests' = [requests EXCEPT ![r] =
                       [IdleRequest EXCEPT !.pc = "access", !.dto = dto, !.user = u]]
    /\ UNCHANGED <<subjects, auditLogs, users, userCenters, nextId, clock, res>>

\* step 1 of create: the access control check
createCheckAccess(r) ==
    LET q == requests[r]
    IN /\ q.pc = "access"
       /\ requests' = [requests EXCEPT ![r] =
              IF q.dto.centerId \notin findUserCenters(q.user)
              THEN [q EXCEPT !.pc = "done", !.status = "Forbidden"]
              ELSE [q EXCEPT !.pc = "lookup"]]
       /\ UNCHANGED <<subjects, auditLogs, users, userCenters, nextId, clock, res>>

\* step 2 of create: existingSubject is looked up, and not consulted afterwards
createFindExisting(r) ==
    LET q == requests[r]
    IN /\ q.pc = "lookup"
       /\ requests' = [requests EXCEPT ![r] =
              [q EXCEPT !.pc = "save",
                        !.existing = (\E s \in subjects : s.number = q.dto.number)]]
       /\ UNCHANGED <<subjects, auditLogs, users, userCenters, nextId, clock, res>>

\* steps 3 and 4 of create: the entity is built and saved; the insert is
\* rejected by the unique constraint when the number is taken by then
createSave(r) ==
    LET q == requests[r]
        subject == [id |-> Uuid(nextId + 1), number |-> q.dto.number, name |-> q.dto.name,
                    birthDate |-> ToDateColumn(NewDate(q.dto.birthDate)),
                    centerId |-> q.dto.centerId]
    IN /\ q.pc = "save"
       /\ UNCHANGED <<auditLogs, users, userCenters, clock, res>>
       /\ IF UniqueViolation(subject)
          THEN /\ requests' = [requests EXCEPT ![r] =
                                  [q EXCEPT !.pc = "done", !.status = "QueryFailedError"]]
               /\ UNCHANGED <<subjects, nextId>>
          ELSE /\ nextId < MaxIds
               /\ subjects' = save(subject)
               /\ nextId' = nextId + 1
               /\ requests' = [requests EXCEPT ![r] =
                                  [q EXCEPT !.pc = "audit", !.subjectId = subject.id]]

\* step 5 of create: the audit insert succeeds, and create returns, or throws
createWriteAudit(r) ==
    LET q == requests[r]
    IN /\ q.pc = "audit"
       /\ clock < MaxAudit
       /\ clock' = clock + 1
       /\ UNCHANGED <<subjects, users, userCenters, nextId, res>>
       /\ \/ /\ auditLogs' = auditLogs \cup
                     {AuditRow(q.user, q.subjectId, "CREATE",
                               CreateDiff(SubjectById(q.subjectId)))}
             /\ requests' = [requests EXCEPT ![r] =
                                [q EXCEPT !.pc = "done", !.status = "ok"]]
          \/ /\ UNCHANGED auditLogs
             /\ requests' = [requests EXCEPT ![r] =
                                [q EXCEPT !.pc = "done", !.status = "AuditWriteError"]]

NextConc ==
    \/ \E r \in Slots, dto \in CreateDtos, u \in users : Receive(r, dto, u)
    \/ \E r \in Slots : createCheckAccess(r)
    \/ \E r \in Slots : createFindExisting(r)
    \/ \E r \in Slots : createSave(r)
    \/ \E r \in Slots : createWriteAudit(r)

SpecConc == Init /\ [][NextConc]_vars


----------------------------------------------------------------------------
(* C1: a findOne on a stored subject whose center is outside the caller's  *)
(* scope fails with Forbidden (the Authorization error) and returns no     *)
(* subject: in every reachable state for every stored subject and user,    *)
(* and for the request just served.                                        *)
C1_FindOneOutOfScopeForbidden ==
    /\ \A s \in subjects, u \in users :
           s.centerId \notin findUserCenters(u) =>
               /\ findOne(s.id, u).status = "Forbidden"
               /\ findOne(s.id, u).value = NULL
    /\ (/\ res.op = "findOne"
        /\ res.arg \in SubjectIds
        /\ SubjectById(res.arg).centerId \notin findUserCenters(res.user))
       => (res.status = "Forbidden" /\ res.value = NULL)

\* a user with a non-empty scope was refused a stored subject of another center
C1_Witness ==
    /\ res.op = "findOne"
    /\ res.arg \in SubjectIds
    /\ findUserCenters(res.user) # {}
    /\ SubjectById(res.arg).centerId \notin findUserCenters(res.user)
    /\ res.status = "Forbidden"

C3_DuplicateCreateConflict ==
    [][\A dto \in CreateDtos, u \in users :
          (/\ create(dto, u)
           /\ dto.centerId \in findUserCenters(u)
           /\ \E s \in subjects : s.number = dto.number)
          => (/\ res'.status = "Conflict"
              /\ subjects' = subjects
              /\ auditLogs' = auditLogs)]_vars

(* C4: no two stored subjects have the same number, after any sequence of  *)
(* create and update requests.                                             *)
C4_NumberUnique ==
    \A s \in subjects, t \in subjects : s.number = t.number => s.id = t.id

\* an update that would give a subject the number of another one was rejected
C4_Witness ==
    /\ res.op = "update"
    /\ res.status = "QueryFailedError"
    /\ res.arg.fields = {"number"}
    /\ Cardinality(subjects) = 2

\* the properties of the DTO that are present all equal the stored values
NoSuppliedFieldDiffers(s, dto) ==
    /\ dto.number \in {Undefined, s.number}
    /\ dto.name \in {Undefined, s.name}
    /\ dto.birthDate \in {Undefined, ToISODateString(FromDateColumn(s.birthDate))}
    /\ dto.centerId \in {Undefined, s.centerId}

(* C5: an update none of whose supplied fields differs from the stored     *)
(* value (a full payload or a subset of the fields) appends no audit entry. *)
C5_NoChangeNoAudit ==
    [][\A id \in UuidShaped, dto \in UpdateDtos, u \in users :
          (/\ update(id, dto, u)
           /\ findOne(id, u).status = "ok"
           /\ NoSuppliedFieldDiffers(SubjectById(id), dto))
          => auditLogs' = auditLogs]_vars

NameOnly(n) ==
    [number |-> Undefined, name |-> n, birthDate |-> Undefined, centerId |-> Undefined]

(* C6: on a subject named "John Doe", a completed update whose payload is  *)
(* only {name: "Jane Doe"} appends exactly one audit entry, with action    *)
(* UPDATE, whose diff has name = {old: "John Doe", new: "Jane Doe"} and no *)
(* entry for number, birthDate or center.                                  *)
C6_NameOnlyDiff ==
    [][\A id \in UuidShaped, u \in users :
          (/\ update(id, NameOnly("Jane Doe"), u)
           /\ findOne(id, u).status = "ok"
           /\ SubjectById(id).name = "John Doe"
           /\ res'.status = "ok")
          => \E a \in auditLogs' :
                 /\ a \notin auditLogs
                 /\ auditLogs' = auditLogs \cup {a}
                 /\ a.action = "UPDATE"
                 /\ "name" \in DOMAIN a.diff
                 /\ a.diff.name = [old |-> "John Doe", new |-> "Jane Doe"]
                 /\ DOMAIN a.diff \cap {"number", "birthDate", "center", "centerId"} = {}]_vars

(* C7: an update leaves every field absent from its payload as it was; in  *)
(* particular a name-only update leaves number, birthDate and centerId.    *)
C7_AbsentFieldsUnchanged ==
    [][(res'.op = "update" /\ res'.arg.id \in SubjectIds)
          => /\ res'.arg.id \in {s.id : s \in subjects'}
             /\ LET old == SubjectById(res'.arg.id)
                    new == CHOOSE s \in subjects' : s.id = res'.arg.id
                IN \A f \in {"number", "name", "birthDate", "centerId"} \ res'.arg.fields :
                       new[f] = old[f]]_vars

\* a name-only update has been applied to a stored subject
C7_Witness ==
    /\ res.op = "update"
    /\ res.status = "ok"
    /\ res.arg.fields = {"name"}
    /\ \E s \in subjects : s.id = res.arg.id /\ s.name = "Jane Doe"

(* C8: create and update are atomic over the subject write and the audit   *)
(* write: whenever a request creates or changes a subject row, its audit   *)
(* entry is appended in the same step.                                     *)
C8_SubjectAndAuditAtomic ==
    [][(res'.op \in {"create", "update"} /\ subjects' # subjects)
          => \E a \in auditLogs' :
                 /\ a \notin auditLogs
                 /\ a.subjectId \in {s.id : s \in subjects'}
                 /\ a.action = (IF res'.op = "create" THEN "CREATE" ELSE "UPDATE")]_vars

(* C9: when a subject created with number N has been deleted (no live      *)
(* subject holds N, its CREATE entry remains with a null subject           *)
(* reference), getAuditLogs(N, U) for a user with the subject's center in  *)
(* scope returns a non-empty sequence.                                     *)
C9_DeletedSubjectHistoryByNumber ==
    (/\ res.op = "getAuditLogs"
     /\ res.arg \in Numbers
     /\ ~ \E s \in subjects : s.number = res.arg
     /\ \E a \in auditLogs :
            /\ a.action = "CREATE"
            /\ a.subjectId = NULL
            /\ a.diff.number = Flat(res.arg)
            /\ a.diff.centerId.flat \in findUserCenters(res.user))
    => (res.status = "ok" /\ res.value # <<>>)

(* C10 as stated: no audit entry is ever removed and no field of a written *)
(* entry ever changes.                                                     *)
C10_AuditRowsNeverChange ==
    [][\A a \in auditLogs : a \in auditLogs']_vars

(* C10 as amended: no audit entry is ever removed, and its id, action,     *)
(* diff and timestamp never change; its subject reference and its user     *)
(* reference change only to null, and only when the referenced subject or  *)
(* user is deleted.                                                        *)
C10_AuditAppendOnlyUpToSetNull ==
    [][\A a \in auditLogs :
          \E b \in auditLogs' :
              /\ b.id = a.id
              /\ b.action = a.action
              /\ b.diff = a.diff
              /\ b.timestamp = a.timestamp
              /\ \/ b.subjectId = a.subjectId
                 \/ (b.subjectId = NULL /\ a.subjectId \notin {s.id : s \in subjects'})
              /\ \/ b.userId = a.userId
                 \/ (b.userId = NULL /\ a.userId \notin users')]_vars

\* the subject and the user of an UPDATE entry have both been deleted, and
\* the entry is still there with both references null
C10_Witness ==
    \E a \in auditLogs :
        /\ a.action = "UPDATE"
        /\ a.subjectId = NULL
        /\ a.userId = NULL
        /\ Cardinality(auditLogs) = 2

(* C11: a create whose centerId is outside the caller's scope fails with   *)
(* Forbidden (the Authorization error) and leaves the subject table and    *)
(* the audit log as they were.                                             *)
C11_CreateOutOfScopeForbidden ==
    [][(res'.op = "create" /\ res'.arg.centerId \notin findUserCenters(res'.user))
          => (/\ res'.status = "Forbidden"
              /\ subjects' = subjects
              /\ auditLogs' = auditLogs)]_vars

\* a create was refused while subjects and audit entries were stored
C11_Witness ==
    /\ res.op = "create"
    /\ res.status = "Forbidden"
    /\ findUserCenters(res.user) # {}
    /\ subjects # {}
    /\ auditLogs # {}

(* C12: every successful create persists exactly one new subject, under an *)
(* identifier no stored subject and no audit entry carried before, and     *)
(* appends exactly one audit entry, with action CREATE, that references    *)
(* the new subject and whose diff holds the full initial field set         *)
(* (number, name, birthDate, centerId).                                    *)
C12_CreatePersistsOneAndAudits ==
    [][(res'.op = "create" /\ res'.status = "ok")
          => \E s \in subjects' :
                 /\ s.id = res'.value
                 /\ s.number = res'.arg.number
                 /\ s.name = res'.arg.name
                 /\ s.centerId = res'.arg.centerId
                 /\ s.id \notin SubjectIds
                 /\ subjects' = subjects \cup {s}
                 /\ \A a \in auditLogs :
                        /\ a.subjectId # s.id
                        /\ "subjectId" \in DOMAIN a.diff => a.diff.subjectId # Flat(s.id)
                 /\ \E a \in auditLogs' :
                        /\ a \notin auditLogs
                        /\ auditLogs' = auditLogs \cup {a}
                        /\ a.action = "CREATE"
                        /\ a.subjectId = s.id
                        /\ a.userId = res'.user
                        /\ DOMAIN a.diff = {"number", "name", "birthDate", "centerId"}
                        /\ a.diff.number = Flat(s.number)
                        /\ a.diff.name = Flat(s.name)
                        /\ a.diff.birthDate = Flat("1990-01-15")
                        /\ a.diff.centerId = Flat(s.centerId)]_vars

\* a second subject has just been created next to a stored one
C12_Witness ==
    /\ res.op = "create"
    /\ res.status = "ok"
    /\ Cardinality(subjects) = 2
    /\ Cardinality({a \in auditLogs : a.action = "CREATE"}) = 2

(* C13: for a user with a non-empty scope findAll returns exactly the      *)
(* stored subjects whose centerId is in the scope, each once, none outside *)
(* the scope and none in scope missing, in ascending order of number.      *)
C13_FindAllScopedAndOrdered ==
    /\ \A u \in users :
           findUserCenters(u) # {} =>
               LET v == findAll(u).value
                   inScope == {s \in subjects : s.centerId \in findUserCenters(u)}
               IN /\ findAll(u).status = "ok"
                  /\ {v[i] : i \in DOMAIN v} = inScope
                  /\ Len(v) = Cardinality(inScope)
                  /\ \A i \in DOMAIN v, j \in DOMAIN v :
                         i < j => NumberRank(v[i].number) < NumberRank(v[j].number)
    /\ (res.op = "findAll" /\ findUserCenters(res.user) # {})
       => /\ res.status = "ok"
          /\ {res.value[i] : i \in DOMAIN res.value}
                 = {s.id : s \in {x \in subjects : x.centerId \in findUserCenters(res.user)}}
          /\ \A i \in DOMAIN res.value, j \in DOMAIN res.value :
                 i < j => NumberRank(SubjectById(res.value[i]).number)
                              < NumberRank(SubjectById(res.value[j]).number)

\* a user with a non-empty scope listed two subjects of the scope, the one
\* created second first because its number is the smaller
C13_Witness ==
    /\ res.op = "findAll"
    /\ findUserCenters(res.user) # {}
    /\ res.value = <<Uuid(2), Uuid(1)>>

(* C14: update applies the access check of findOne: on an id no stored     *)
(* subject has it fails with NotFound, on a subject whose center is        *)
(* outside the caller's scope it fails with Forbidden, and in both cases   *)
(* the subject table and the audit log stay as they were.                  *)
C14_UpdateAccessCheck ==
    [][res'.op = "update"
          => LET id == res'.arg.id
                 u == res'.user
             IN /\ id \notin SubjectIds
                    => (/\ res'.status = "NotFound"
                        /\ subjects' = subjects
                        /\ auditLogs' = auditLogs)
                /\ (id \in SubjectIds /\ SubjectById(id).centerId \notin findUserCenters(u))
                    => (/\ res'.status = "Forbidden"
                        /\ subjects' = subjects
                        /\ auditLogs' = auditLogs)]_vars

\* a user with a non-empty scope was refused the update of a stored subject
\* that had been moved to a center outside the scope
C14_Witness ==
    /\ res.op = "update"
    /\ res.status = "Forbidden"
    /\ res.arg.id \in SubjectIds
    /\ findUserCenters(res.user) # {}
    /\ SubjectById(res.arg.id).centerId \notin findUserCenters(res.user)

(* C15: getAuditLogs re-applies the access scope: when the subject the     *)
(* input names, live (by id or by number) or deleted (by the number its    *)
(* CREATE entry records), has its center outside the caller's scope, the   *)
(* request fails with Forbidden and returns none of the subject's entries. *)
C15_AuditLogsScoped ==
    res.op = "getAuditLogs" =>
        /\ \A s \in subjects :
               (res.arg \in {s.id, s.number} /\ s.centerId \notin findUserCenters(res.user))
               => (res.status = "Forbidden" /\ res.value = <<>>)
        /\ (/\ res.arg \in Numbers
            /\ ~ \E s \in subjects : s.number = res.arg
            /\ \A b \in auditLogs : b.action = "CREATE"
            /\ \E a \in auditLogs :
                   /\ a.subjectId = NULL
                   /\ a.diff.number = Flat(res.arg)
                   /\ a.diff.centerId.flat \notin findUserCenters(res.user))
           => (res.status = "Forbidden" /\ res.value = <<>>)

(* C16: a findOne on an id no stored subject has fails with NotFound, not  *)
(* with Forbidden, for every user, a user with an empty scope included:    *)
(* the existence check comes before the scope check.                       *)
C16_FindOneNotFoundFirst ==
    /\ \A id \in UuidShaped \ SubjectIds, u \in users :
           findOne(id, u) = [status |-> "NotFound", value |-> NULL]
    /\ (res.op = "findOne" /\ res.arg \notin SubjectIds)
       => (res.status = "NotFound" /\ res.status # "Forbidden" /\ res.value = NULL)

\* a user with an empty scope asked for an id that is not stored, while
\* another subject was stored
C16_Witness ==
    /\ res.op = "findOne"
    /\ res.arg \notin SubjectIds
    /\ findUserCenters(res.user) = {}
    /\ subjects # {}
    /\ res.status = "NotFound"

\* no stored subject has number n and no audit entry's diff carries n as its
\* number, flat or as the new half of a change
Unresolvable(n) ==
    /\ n \in Numbers
    /\ ~ \E s \in subjects : s.number = n
    /\ \A a \in auditLogs :
           "number" \in DOMAIN a.diff =>
               /\ a.diff.number # Flat(n)
               /\ "new" \in DOMAIN a.diff.number => a.diff.number.new # n

(* C17: getAuditLogs on an input that is not identifier-shaped, is the     *)
(* number of no stored subject and is the number in no audit entry's diff  *)
(* returns the empty sequence and raises no error.                         *)
C17_UnresolvedIsEmpty ==
    /\ \A n \in Numbers, u \in users :
           Unresolvable(n) => getAuditLogs(n, u) = [status |-> "ok", value |-> <<>>]
    /\ (res.op = "getAuditLogs" /\ Unresolvable(res.arg))
       => (res.status = "ok" /\ res.value = <<>>)

\* the history of a number nobody ever had was asked for while audit entries
\* of another subject were stored
C17_Witness ==
    /\ res.op = "getAuditLogs"
    /\ Unresolvable(res.arg)
    /\ auditLogs # {}
    /\ res.status = "ok"
    /\ res.value = <<>>

(* C18: when getAuditLogs resolves a subject id and returns, the result is *)
(* exactly the audit entries whose subject reference is that id or whose   *)
(* diff embeds subjectId equal to it, each once, newest first (no entry    *)
(* older than the one after it).                                           *)
C18_AuditLogsOfResolvedSubject ==
    \A key \in AuditLogKeys, u \in users :
        LET sid == resolveSubjectId(key)
            r == getAuditLogs(key, u)
            v == r.value
            referring == {a \in auditLogs :
                             \/ a.subjectId = sid
                             \/ ("subjectId" \in DOMAIN a.diff /\ a.diff.subjectId = Flat(sid))}
        IN (sid # NULL /\ r.status = "ok")
           => /\ {v[i] : i \in DOMAIN v} = referring
              /\ Len(v) = Cardinality(referring)
              /\ \A i \in DOMAIN v, j \in DOMAIN v :
                     i < j => v[i].timestamp >= v[j].timestamp
              /\ (res.op = "getAuditLogs" /\ res.arg = key /\ res.user = u)
                 => res.value = [i \in DOMAIN v |-> v[i].id]

\* the CREATE entry and the UPDATE entry of a live subject were returned,
\* the UPDATE entry first
C18_Witness ==
    /\ res.op = "getAuditLogs"
    /\ res.status = "ok"
    /\ Len(res.value) = 2
    /\ \E a \in auditLogs, b \in auditLogs :
           /\ a.id = res.value[1] /\ a.action = "UPDATE"
           /\ b.id = res.value[2] /\ b.action = "CREATE"
           /\ a.timestamp > b.timestamp

\* the audit entries whose diff carries n as its number, flat or as the new
\* half of a change
Carriers(n) ==
    {a \in auditLogs :
        /\ "number" \in DOMAIN a.diff
        /\ \/ a.diff.number = Flat(n)
           \/ ("new" \in DOMAIN a.diff.number /\ a.diff.number.new = n)}

\* audit entry a belongs to subject id sid, directly or by its diff
BelongsTo(a, sid) ==
    \/ a.subjectId = sid
    \/ ("subjectId" \in DOMAIN a.diff /\ a.diff.subjectId = Flat(sid))

(* C19: getAuditLogs resolves its input in a fixed precedence: an          *)
(* identifier-shaped input is used as it is; otherwise a live subject with *)
(* that number wins; only when no live subject has the number are the      *)
(* audit entries carrying it scanned, earliest first, and the first        *)
(* match's subject reference used.  In particular the history returned for *)
(* a number a live subject holds is that subject's, even when older        *)
(* entries of another subject carry the number.                            *)
C19_ResolutionPrecedence ==
    /\ \A key \in UuidShaped : resolveSubjectId(key) = key
    /\ \A n \in Numbers :
           IF \E s \in subjects : s.number = n
           THEN \A s \in subjects :
                    s.number = n =>
                        /\ resolveSubjectId(n) = s.id
                        /\ \A u \in users :
                               LET r == getAuditLogs(n, u)
                               IN r.status = "ok" =>
                                      \A i \in DOMAIN r.value : BelongsTo(r.value[i], s.id)
           ELSE IF Carriers(n) = {}
           THEN resolveSubjectId(n) = NULL
           ELSE \E a \in Carriers(n) :
                    /\ \A b \in Carriers(n) : a.timestamp <= b.timestamp
                    /\ resolveSubjectId(n) = a.subjectId
    /\ (res.op = "getAuditLogs" /\ res.status = "ok")
       => \A s \in subjects :
              s.number = res.arg =>
                  \A i \in DOMAIN res.value :
                      \E a \in auditLogs : a.id = res.value[i] /\ BelongsTo(a, s.id)

\* the history of a number was returned as the live holder's, while an
\* older entry of another subject, since deleted, carries the same number
C19_Witness ==
    /\ res.op = "getAuditLogs"
    /\ res.status = "ok"
    /\ res.arg \in Numbers
    /\ \E s \in subjects, a \in Carriers(res.arg), b \in Carriers(res.arg) :
           /\ s.number = res.arg
           /\ ~ BelongsTo(a, s.id)
           /\ BelongsTo(b, s.id)
           /\ a.timestamp < b.timestamp
           /\ res.value = <<b.id>>

C21_BirthDateDiffCanonical ==
    [][(/\ res'.op = "update"
        /\ res'.arg.id \in SubjectIds
        /\ res'.status = "ok"
        /\ "birthDate" \in res'.arg.fields)
          => LET old == SubjectById(res'.arg.id)
                 new == CHOOSE s \in subjects' : s.id = res'.arg.id
                 suppliedDay == ToISODateString(FromDateColumn(new.birthDate))
                 storedDay == ToISODateString(FromDateColumn(old.birthDate))
             IN (suppliedDay # storedDay)
                <=> (\E a \in auditLogs' \ auditLogs : "birthDate" \in DOMAIN a.diff)]_vars

(* C23: writes preserve the scope: after a create or an update that        *)
(* returns to user U, the center of the subject written is in the scope of *)
(* U; an update cannot move a subject to a center outside the caller's     *)
(* scope.                                                                  *)
C23_WritesStayInScope ==
    [][(res'.op \in {"create", "update"} /\ res'.status = "ok")
          => LET id == IF res'.op = "create" THEN res'.value ELSE res'.arg.id
                 written == CHOOSE s \in subjects' : s.id = id
             IN written.centerId \in findUserCenters(res'.user)]_vars

(* C22: when two create requests with the same number run concurrently,    *)
(* their duplicate lookups both made before either save, at most one       *)
(* persists a subject and the other ends with Conflict; in no interleaving *)
(* are there two subjects with one number, or a CREATE entry for a subject *)
(* that was not persisted.                                                 *)
C22_ConcurrentCreateConflict ==
    /\ \A s \in subjects, t \in subjects : s.number = t.number => s.id = t.id
    /\ \A a \in auditLogs : a.action = "CREATE" => a.subjectId \in SubjectIds
    /\ \A r1 \in Slots, r2 \in Slots :
           (/\ r1 # r2
            /\ requests[r1].pc = "done"
            /\ requests[r2].pc = "done"
            /\ requests[r1].dto.number = requests[r2].dto.number
            /\ requests[r1].status # "Forbidden"
            /\ requests[r2].status # "Forbidden"
            /\ ~ requests[r1].existing
            /\ ~ requests[r2].existing
            /\ requests[r1].subjectId # NULL)
           => (requests[r2].subjectId = NULL /\ requests[r2].status = "Conflict")

====
